---- MODULE Spec2Model ----
(***************************************************************************)
(* Verification model of src/common.mts: the world constants, the          *)
(* direction table, the binary schema builder (HelloStruct), the event     *)
(* validators, the movement integrator updatePlayer and sendMessage.       *)
(*                                                                         *)
(* A JavaScript number is an IEEE-754 binary64 value.  The model keeps it  *)
(* exactly: a finite number is sign * m * 2^e with the magnitude m held as *)
(* an unbounded natural number, and every arithmetic                       *)
(* operator of the source (+, *, /, %) is computed exactly and then        *)
(* rounded to nearest, ties to even, at 53 bits, as the language defines.  *)
(***************************************************************************)
EXTENDS Integers, Sequences, FiniteSets, TLC

VARIABLES
    player, call, ticks,        \* the movement machine
    payload, validator, result, \* the validator machine
    dataView, fresh, base, written, last,  \* the handshake machine
    socket, returned, messages  \* the sending machine

moveVars == <<player, call, ticks>>
validateVars == <<payload, validator, result>>
helloVars == <<dataView, fresh, base, written, last>>
sendVars == <<socket, returned, messages>>
vars == <<moveVars, validateVars, helloVars, sendVars>>

(***************************************************************************)
(* Natural numbers of any size: sequences of limbs in base BASE, least     *)
(* significant limb first, no high zero limb; <<>> is zero.  Bit positions *)
(* are counted from 1 at the least significant bit.                        *)
(***************************************************************************)
BASE == 2^12

RECURSIVE BitLenInt(_)
BitLenInt(n) == IF n = 0 THEN 0 ELSE 1 + BitLenInt(n \div 2)

LimbBits == BitLenInt(BASE) - 1

RECURSIVE BStrip(_)
BStrip(a) ==
    IF a = <<>> THEN <<>>
    ELSE IF a[Len(a)] = 0 THEN BStrip(SubSeq(a, 1, Len(a) - 1)) ELSE a

RECURSIVE BFromNat(_)
BFromNat(n) == IF n = 0 THEN <<>> ELSE <<n % BASE>> \o BFromNat(n \div BASE)

RECURSIVE BToNat(_)
BToNat(a) == IF a = <<>> THEN 0 ELSE a[1] + BASE * BToNat(Tail(a))

Zeros(k) == [i \in 1..k |-> 0]

BLen(a) == IF a = <<>> THEN 0 ELSE (Len(a) - 1) * LimbBits + BitLenInt(a[Len(a)])

BBit(a, i) ==
    LET j == (i - 1) \div LimbBits + 1
    IN  IF i < 1 \/ j > Len(a) THEN 0 ELSE (a[j] \div (2^((i - 1) % LimbBits))) % 2

\* a * 2^k
BShl(a, k) ==
    IF a = <<>> \/ k <= 0 THEN a
    ELSE LET n == Len(a)
             f == 2^(k % LimbBits)
             limb(i) == IF i < 1 \/ i > n THEN 0 ELSE a[i]
         IN  Zeros(k \div LimbBits)
             \o BStrip([i \in 1..n + 1 |->
                           ((limb(i) * f) % BASE) + ((limb(i - 1) * f) \div BASE)])

\* a \div 2^k
BShr(a, k) ==
    IF k <= 0 THEN a
    ELSE IF k \div LimbBits >= Len(a) THEN <<>>
    ELSE LET q == k \div LimbBits
             n == Len(a) - q
             f == 2^(k % LimbBits)
             limb(i) == IF i > n THEN 0 ELSE a[q + i]
         IN  BStrip([i \in 1..n |->
                        (limb(i) \div f) + ((limb(i + 1) % f) * (BASE \div f))])

\* a % 2^k
BLow(a, k) ==
    IF k <= 0 THEN <<>>
    ELSE IF k \div LimbBits >= Len(a) THEN a
    ELSE LET q == k \div LimbBits
         IN  BStrip([i \in 1..q + 1 |->
                        IF i <= q THEN a[i] ELSE a[i] % (2^(k % LimbBits))])

RECURSIVE BAddC(_, _, _)
BAddC(a, b, c) ==
    IF a = <<>> /\ b = <<>> THEN (IF c = 0 THEN <<>> ELSE <<c>>)
    ELSE LET x == IF a = <<>> THEN 0 ELSE a[1]
             y == IF b = <<>> THEN 0 ELSE b[1]
             t == x + y + c
         IN  <<t % BASE>> \o BAddC(IF a = <<>> THEN a ELSE Tail(a),
                                   IF b = <<>> THEN b ELSE Tail(b), t \div BASE)

BAdd(a, b) == BAddC(a, b, 0)

\* a - b for a >= b
RECURSIVE BSubC(_, _, _)
BSubC(a, b, c) ==
    IF a = <<>> THEN <<>>
    ELSE LET y == IF b = <<>> THEN 0 ELSE b[1]
             t == a[1] - y - c
         IN  <<t % BASE>> \o BSubC(Tail(a), IF b = <<>> THEN b ELSE Tail(b),
                                   IF t < 0 THEN 1 ELSE 0)

BSub(a, b) == BStrip(BSubC(a, b, 0))

\* -1, 0, 1 as a < b, a = b, a > b
RECURSIVE BCmpFrom(_, _, _)
BCmpFrom(a, b, i) ==
    IF i = 0 THEN 0
    ELSE IF a[i] > b[i] THEN 1
    ELSE IF a[i] < b[i] THEN -1
    ELSE BCmpFrom(a, b, i - 1)

BCmp(a, b) ==
    IF Len(a) > Len(b) THEN 1
    ELSE IF Len(a) < Len(b) THEN -1
    ELSE BCmpFrom(a, b, Len(a))

\* a * d + c for one limb d
RECURSIVE BMulLimb(_, _, _)
BMulLimb(a, d, c) ==
    IF a = <<>> THEN (IF c = 0 THEN <<>> ELSE <<c>>)
    ELSE LET t == a[1] * d + c
         IN  <<t % BASE>> \o BMulLimb(Tail(a), d, t \div BASE)

RECURSIVE BMul(_, _)
BMul(a, b) ==
    IF a = <<>> \/ b = <<>> THEN <<>>
    ELSE BStrip(BAdd(BMulLimb(a, b[1], 0), <<0>> \o BMul(a, Tail(b))))

\* <<quotient, remainder>> of a by b, b > 0
RECURSIVE BDivMod(_, _)
BDivMod(a, b) ==
    IF BCmp(a, BShl(b, 1)) < 0 THEN
        (IF BCmp(a, b) >= 0 THEN << <<1>>, BSub(a, b) >> ELSE << <<>>, a >>)
    ELSE LET h  == (BLen(a) - BLen(b) + 1) \div 2
             d1 == BDivMod(BShr(a, h), b)
             d2 == BDivMod(BAdd(BShl(d1[2], h), BLow(a, h)), b)
         IN  << BAdd(BShl(d1[1], h), d2[1]), d2[2] >>

\* the number of low zero bits of a > 0
RECURSIVE BLowZeros(_)
BLowZeros(a) ==
    IF a = <<>> THEN 0
    ELSE IF a[1] = 0 THEN LimbBits + BLowZeros(Tail(a))
    ELSE CHOOSE z \in 0..LimbBits : a[1] % (2^z) = 0 /\ (a[1] \div (2^z)) % 2 = 1

Max(i, j) == IF i >= j THEN i ELSE j
Min(i, j) == IF i <= j THEN i ELSE j

(***************************************************************************)
(* IEEE-754 numbers.  k is "fin", "inf" or "nan"; s is the sign bit; a     *)
(* finite value is (-1)^s * m * 2^e with m odd, or m = <<>> and e = 0 for  *)
(* a zero (which keeps its sign).                                          *)
(***************************************************************************)
NaN == [k |-> "nan", s |-> 0, m |-> <<>>, e |-> 0]
Inf(s) == [k |-> "inf", s |-> s, m |-> <<>>, e |-> 0]
Zero(s) == [k |-> "fin", s |-> s, m |-> <<>>, e |-> 0]

\* the canonical finite number of sign s and magnitude m * 2^e
Fin(s, m, e) ==
    IF m = <<>> THEN Zero(s)
    ELSE LET z == BLowZeros(m)
         IN  [k |-> "fin", s |-> s, m |-> BShr(m, z), e |-> e + z]

\* a small integer as a number
Num(i) == IF i < 0 THEN Fin(1, BFromNat(-i), 0) ELSE Fin(0, BFromNat(i), 0)

IsNaN(a) == a.k = "nan"
IsFinite(a) == a.k = "fin"
IsZero(a) == a.k = "fin" /\ a.m = <<>>

DOUBLE_PREC == 53
DOUBLE_EMIN == -1074
DOUBLE_EMAX == 1023

\* (-1)^s * m * 2^e rounded to nearest, ties to even, in the format of
\* precision prec whose least subnormal is 2^emin and whose largest finite
\* value is below 2^(emax+1)
RoundTo(prec, emin, emax, s, m0, e) ==
    LET m == BStrip(m0)
        L == BLen(m)
        k == Max(L - prec, emin - e)
    IN  IF m = <<>> THEN Zero(s)
        ELSE IF k <= 0 THEN
            (IF e + L - 1 > emax THEN Inf(s) ELSE Fin(s, m, e))
        ELSE
            LET q      == BShr(m, k)
                half   == BBit(m, k) = 1
                sticky == BLow(m, k - 1) # <<>>
                odd    == BBit(q, 1) = 1
                up     == IF k > L THEN FALSE ELSE half /\ (sticky \/ odd)
                r      == IF up THEN BAdd(q, <<1>>) ELSE q
            IN  IF r = <<>> THEN Zero(s)
                ELSE IF e + k + BLen(r) - 1 > emax THEN Inf(s)
                ELSE Fin(s, r, e + k)

Round(s, m, e) == RoundTo(DOUBLE_PREC, DOUBLE_EMIN, DOUBLE_EMAX, s, m, e)

\* -1, 0, 1 as |a| < |b|, |a| = |b|, |a| > |b|, for finite a and b
MagCmp(a, b) ==
    IF a.m = <<>> \/ b.m = <<>> THEN
        (IF a.m = <<>> /\ b.m = <<>> THEN 0 ELSE IF a.m = <<>> THEN -1 ELSE 1)
    ELSE LET ta == a.e + BLen(a.m)
             tb == b.e + BLen(b.m)
             e0 == Min(a.e, b.e)
         IN  IF ta > tb THEN 1 ELSE IF ta < tb THEN -1
             ELSE BCmp(BShl(a.m, a.e - e0), BShl(b.m, b.e - e0))

\* a + b
FAdd(a, b) ==
    IF IsNaN(a) \/ IsNaN(b) THEN NaN
    ELSE IF a.k = "inf" /\ b.k = "inf" THEN (IF a.s = b.s THEN a ELSE NaN)
    ELSE IF a.k = "inf" THEN a
    ELSE IF b.k = "inf" THEN b
    ELSE IF IsZero(a) /\ IsZero(b) THEN Zero(IF a.s = 1 /\ b.s = 1 THEN 1 ELSE 0)
    ELSE IF IsZero(a) THEN b
    ELSE IF IsZero(b) THEN a
    ELSE IF a.e + BLen(a.m) - (b.e + BLen(b.m)) > DOUBLE_PREC + 3 THEN a
    ELSE IF b.e + BLen(b.m) - (a.e + BLen(a.m)) > DOUBLE_PREC + 3 THEN b
    ELSE LET e0 == Min(a.e, b.e)
             A  == BShl(a.m, a.e - e0)
             B  == BShl(b.m, b.e - e0)
             c  == BCmp(A, B)
         IN  IF a.s = b.s THEN Round(a.s, BAdd(A, B), e0)
             ELSE IF c = 0 THEN Zero(0)
             ELSE IF c > 0 THEN Round(a.s, BSub(A, B), e0)
             ELSE Round(b.s, BSub(B, A), e0)

\* a * b
FMul(a, b) ==
    LET s == (a.s + b.s) % 2
    IN  IF IsNaN(a) \/ IsNaN(b) THEN NaN
        ELSE IF a.k = "inf" \/ b.k = "inf" THEN
            (IF IsZero(a) \/ IsZero(b) THEN NaN ELSE Inf(s))
        ELSE Round(s, BMul(a.m, b.m), a.e + b.e)

\* a / b
FDiv(a, b) ==
    LET s == (a.s + b.s) % 2
    IN  IF IsNaN(a) \/ IsNaN(b) THEN NaN
        ELSE IF a.k = "inf" THEN (IF b.k = "inf" THEN NaN ELSE Inf(s))
        ELSE IF b.k = "inf" THEN Zero(s)
        ELSE IF IsZero(b) THEN (IF IsZero(a) THEN NaN ELSE Inf(s))
        ELSE IF IsZero(a) THEN Zero(s)
        ELSE LET k  == Max(0, DOUBLE_PREC + 2 + BLen(b.m) - BLen(a.m))
                 qr == BDivMod(BShl(a.m, k), b.m)
                 st == IF qr[2] = <<>> THEN 0 ELSE 1
             IN  Round(s, BAdd(BShl(qr[1], 1), BFromNat(st)), a.e - b.e - k - 1)

\* 2^g % b for b > 0
RECURSIVE BPow2Mod(_, _)
BPow2Mod(g, b) ==
    IF g = 0 THEN BDivMod(<<1>>, b)[2]
    ELSE LET h  == BPow2Mod(g \div 2, b)
             sq == BDivMod(BMul(h, h), b)[2]
         IN  IF g % 2 = 1 THEN BDivMod(BShl(sq, 1), b)[2] ELSE sq

\* a % b: the remainder of the truncating division, with the sign of a
FRem(a, b) ==
    IF IsNaN(a) \/ IsNaN(b) \/ a.k = "inf" \/ IsZero(b) THEN NaN
    ELSE IF b.k = "inf" \/ IsZero(a) THEN a
    ELSE IF MagCmp(a, b) < 0 THEN a
    ELSE IF a.e >= b.e THEN
        Fin(a.s, BDivMod(BMul(a.m, BPow2Mod(a.e - b.e, b.m)), b.m)[2], b.e)
    ELSE Fin(a.s, BDivMod(a.m, BShl(b.m, b.e - a.e))[2], a.e)

\* a < b and a <= b as the language compares numbers (false with a NaN)
FLt(a, b) ==
    IF IsNaN(a) \/ IsNaN(b) THEN FALSE
    ELSE IF IsZero(a) /\ IsZero(b) THEN FALSE
    ELSE IF a.k = "inf" THEN a.s = 1 /\ ~(b.k = "inf" /\ b.s = 1)
    ELSE IF b.k = "inf" THEN b.s = 0
    ELSE IF a.s # b.s THEN a.s = 1
    ELSE IF a.s = 0 THEN MagCmp(a, b) < 0 ELSE MagCmp(a, b) > 0

\* a === b on numbers
FEq(a, b) ==
    IF IsNaN(a) \/ IsNaN(b) THEN FALSE
    ELSE IF IsZero(a) /\ IsZero(b) THEN TRUE
    ELSE a = b

FLe(a, b) == FLt(a, b) \/ FEq(a, b)

FNeg(a) == IF IsNaN(a) THEN a ELSE [a EXCEPT !.s = 1 - a.s]

(***************************************************************************)
(* World constants and the direction table.                                *)
(***************************************************************************)
WORLD_FACTOR == 200
WORLD_WIDTH == 4 * WORLD_FACTOR
WORLD_HEIGHT == 3 * WORLD_FACTOR
PLAYER_SPEED == 500

Direction == {"left", "right", "up", "down"}

DIRECTION_VECTORS ==
    [left  |-> [x |-> -1, y |-> 0],
     right |-> [x |-> 1, y |-> 0],
     up    |-> [x |-> 0, y |-> -1],
     down  |-> [x |-> 0, y |-> 1]]

\* the order in which for-in visits the keys of DIRECTION_VECTORS
DirectionKeys == <<"left", "right", "up", "down">>

(***************************************************************************)
(* JavaScript values: [t |-> the type tag, v |-> the payload].  An object  *)
(* holds its own properties in insertion order, as <<key, value>> pairs;   *)
(* "throw" stands for a raised exception.                                  *)
(***************************************************************************)
Undefined == [t |-> "undefined", v |-> 0]
Null == [t |-> "null", v |-> 0]
Bool(b) == [t |-> "boolean", v |-> b]
Number(n) == [t |-> "number", v |-> n]
Str(s) == [t |-> "string", v |-> s]
Arr(elems) == [t |-> "array", v |-> elems]
Obj(props) == [t |-> "object", v |-> props]
Throw == [t |-> "throw", v |-> "TypeError"]

\* typeof arg
TypeOf(a) ==
    CASE a.t \in {"null", "array", "object"} -> "object"
      [] OTHER -> a.t

\* ToBoolean(arg)
Truthy(a) ==
    CASE a.t \in {"undefined", "null"} -> FALSE
      [] a.t = "boolean" -> a.v
      [] a.t = "number" -> ~(IsNaN(a.v) \/ IsZero(a.v))
      [] a.t = "string" -> a.v # ""
      [] a.t \in {"array", "object"} -> TRUE

\* arg.key for the keys the validators read, none of which is inherited
Get(a, key) ==
    CASE a.t \in {"undefined", "null"} -> Throw
      [] a.t = "object" ->
            (IF \E i \in 1..Len(a.v) : a.v[i][1] = key
             THEN a.v[CHOOSE i \in 1..Len(a.v) : a.v[i][1] = key][2]
             ELSE Undefined)
      [] OTHER -> Undefined

\* a && b
And(a, b) == IF a.t = "throw" THEN a ELSE IF Truthy(a) THEN b ELSE a

\* a === s for a string literal s
StrictEqualsString(a, s) ==
    IF a.t = "throw" THEN a ELSE Bool(a.t = "string" /\ a.v = s)

Digits == <<"0", "1", "2", "3", "4", "5", "6", "7", "8", "9">>

\* the decimal digits of a natural number
RECURSIVE NatToString(_)
NatToString(m) ==
    LET qr == BDivMod(m, BFromNat(10))
    IN  IF qr[1] = <<>> THEN Digits[BToNat(qr[2]) + 1]
        ELSE NatToString(qr[1]) \o Digits[BToNat(qr[2]) + 1]

IsInteger(n) == IsFinite(n) /\ n.e >= 0

\* Number::toString for the integers below 2^64 and the values that are not
\* finite
NumberToString(n) ==
    CASE IsNaN(n) -> "NaN"
      [] n.k = "inf" -> (IF n.s = 1 THEN "-Infinity" ELSE "Infinity")
      [] IsZero(n) -> "0"
      [] IsInteger(n) /\ ~IsZero(n) /\ n.e + BLen(n.m) <= 64 ->
            (IF n.s = 1 THEN "-" ELSE "") \o NatToString(BShl(n.m, n.e))

\* ToPropertyKey(arg): for these values, the string ToString(arg)
RECURSIVE ToPropertyKey(_), JoinElements(_, _)
ToPropertyKey(a) ==
    CASE a.t = "undefined" -> "undefined"
      [] a.t = "null" -> "null"
      [] a.t = "boolean" -> (IF a.v THEN "true" ELSE "false")
      [] a.t = "number" -> NumberToString(a.v)
      [] a.t = "string" -> a.v
      [] a.t = "object" -> "[object Object]"
      [] a.t = "array" -> JoinElements(a.v, 1)

\* Array.prototype.join(",") from element i on
JoinElements(elems, i) ==
    IF i > Len(elems) THEN ""
    ELSE (IF elems[i].t \in {"undefined", "null"} THEN "" ELSE ToPropertyKey(elems[i]))
         \o (IF i < Len(elems) THEN "," ELSE "")
         \o JoinElements(elems, i + 1)

\* the properties every object literal inherits from Object.prototype
ObjectPrototypeKeys ==
    {"constructor", "toString", "toLocaleString", "valueOf", "hasOwnProperty",
     "isPrototypeOf", "propertyIsEnumerable", "__proto__", "__defineGetter__",
     "__defineSetter__", "__lookupGetter__", "__lookupSetter__"}

(***************************************************************************)
(* The type guards and the validators                                      *)
(***************************************************************************)
\* DIRECTION_VECTORS[arg] !== undefined: the lookup finds an own key of the
\* table or a property the table inherits
isDirection(arg) ==
    IF arg.t = "throw" THEN arg
    ELSE LET key == ToPropertyKey(arg)
         IN  Bool(key \in DOMAIN DIRECTION_VECTORS \/ key \in ObjectPrototypeKeys)

isNumber(arg) == IF arg.t = "throw" THEN arg ELSE Bool(TypeOf(arg) = "number")

isString(arg) == IF arg.t = "throw" THEN arg ELSE Bool(TypeOf(arg) = "string")

isBoolean(arg) == IF arg.t = "throw" THEN arg ELSE Bool(TypeOf(arg) = "boolean")

isPlayerJoined(arg) ==
    And(And(And(And(And(arg,
        StrictEqualsString(Get(arg, "kind"), "PlayerJoined")),
        isNumber(Get(arg, "id"))),
        isNumber(Get(arg, "x"))),
        isNumber(Get(arg, "y"))),
        isNumber(Get(arg, "hue")))

isPlayerLeft(arg) ==
    And(And(arg,
        StrictEqualsString(Get(arg, "kind"), "PlayerLeft")),
        isNumber(Get(arg, "id")))

isAmmaMoving(arg) ==
    And(And(And(arg,
        StrictEqualsString(Get(arg, "kind"), "AmmaMoving")),
        isBoolean(Get(arg, "start"))),
        isDirection(Get(arg, "direction")))

isPlayerMoving(arg) ==
    And(And(And(And(And(And(arg,
        StrictEqualsString(Get(arg, "kind"), "PlayerMoving")),
        isNumber(Get(arg, "id"))),
        isNumber(Get(arg, "x"))),
        isNumber(Get(arg, "y"))),
        isBoolean(Get(arg, "start"))),
        isDirection(Get(arg, "direction")))

(***************************************************************************)
(* The validator machine: a decoded payload arrives and one validator is   *)
(* applied to it.                                                          *)
(***************************************************************************)
Absent == [t |-> "absent", v |-> 0]

Prop(key, c) == IF c.t = "absent" THEN <<>> ELSE << <<key, c>> >>

KindChoices ==
    {Absent, Str("PlayerJoined"), Str("PlayerLeft"), Str("AmmaMoving"),
     Str("PlayerMoving"), Str("Hello"), Number(Num(0))}

NumberChoices == {Absent, Number(Num(1)), Str("1")}

XChoices == {Absent, Number(Num(10))}

YChoices == {Number(Num(300)), Null}

HueChoices == {Absent, Number(Num(7))}

StartChoices == {Absent, Bool(TRUE), Bool(FALSE), Number(Num(1))}

DirectionChoices ==
    {Absent, Str("left"), Str("right"), Str("up"), Str("down"), Str("Left"),
     Str(""), Str("toString"), Str("constructor"), Str("__proto__"),
     Number(Num(0)), Null, Bool(TRUE), Arr(<< Str("left") >>), Arr(<<>>),
     Obj(<<>>)}

ObjectArgs ==
    {Obj(Prop("kind", k) \o Prop("id", i) \o Prop("x", x) \o Prop("y", y)
         \o Prop("hue", h) \o Prop("start", s) \o Prop("direction", d)) :
        k \in KindChoices, i \in NumberChoices, x \in XChoices,
        y \in YChoices, h \in HueChoices, s \in StartChoices,
        d \in DirectionChoices}

PrimitiveArgs ==
    {Undefined, Null, Bool(FALSE), Bool(TRUE), Number(Num(0)), Number(NaN),
     Number(Num(1)), Str(""), Str("PlayerJoined"), Arr(<<>>)}

Validators == {"isPlayerJoined", "isPlayerLeft", "isAmmaMoving", "isPlayerMoving"}

ValidateIdle == payload = Undefined /\ validator = "none" /\ result = Undefined

ValidateInit ==
    /\ payload \in ObjectArgs \cup PrimitiveArgs
    /\ validator = "none"
    /\ result = Undefined

Apply(name, a) ==
    CASE name = "isPlayerJoined" -> isPlayerJoined(a)
      [] name = "isPlayerLeft" -> isPlayerLeft(a)
      [] name = "isAmmaMoving" -> isAmmaMoving(a)
      [] name = "isPlayerMoving" -> isPlayerMoving(a)

Validate(name) ==
    /\ validator = "none"
    /\ validator' = name
    /\ result' = Apply(name, payload)
    /\ UNCHANGED payload

(***************************************************************************)
(* updatePlayer                                                            *)
(***************************************************************************)
\* properMod as the plain remainder, which keeps the sign of a
properMod_PlainRemainder(a, b) == FRem(a, b)

properMod(a, b) == FRem(FAdd(FRem(a, b), b), b)

\* the loop of updatePlayer over the first n keys: <<dx, dy>>
RECURSIVE SumDirections(_, _)
SumDirections(moving, n) ==
    IF n = 0 THEN [x |-> Num(0), y |-> Num(0)]
    ELSE LET d   == SumDirections(moving, n - 1)
             dir == DirectionKeys[n]
         IN  IF moving[dir]
             THEN [x |-> FAdd(d.x, Num(DIRECTION_VECTORS[dir].x)),
                   y |-> FAdd(d.y, Num(DIRECTION_VECTORS[dir].y))]
             ELSE d

\* l = dx*dx + dy*dy
SquaredLength(d) == FAdd(FMul(d.x, d.x), FMul(d.y, d.y))

\* updatePlayer without the division by l
DivideBy_NoDivision(d, l) == d

\* if (l !== 0) { dx /= l; dy /= l }
DivideBy(d, l) ==
    IF ~FEq(l, Num(0)) THEN [x |-> FDiv(d.x, l), y |-> FDiv(d.y, l)] ELSE d

Normalize(d) == DivideBy(d, SquaredLength(d))

\* dx, dy after the loop and the division by l
MoveDirection(moving) == Normalize(SumDirections(moving, Len(DirectionKeys)))

\* d.x*PLAYER_SPEED*deltaTime, d.y*PLAYER_SPEED*deltaTime
Scale(d, deltaTime) ==
    [x |-> FMul(FMul(d.x, Num(PLAYER_SPEED)), deltaTime),
     y |-> FMul(FMul(d.y, Num(PLAYER_SPEED)), deltaTime)]

\* dx*PLAYER_SPEED*deltaTime, dy*PLAYER_SPEED*deltaTime
Displacement(moving, deltaTime) == Scale(MoveDirection(moving), deltaTime)

\* the two assignments that end updatePlayer
Integrate(p, d) ==
    [p EXCEPT !.x = properMod(FAdd(p.x, d.x), Num(WORLD_WIDTH)),
              !.y = properMod(FAdd(p.y, d.y), Num(WORLD_HEIGHT))]

updatePlayer(p, deltaTime) == Integrate(p, Displacement(p.moving, deltaTime))

(***************************************************************************)
(* The movement state machine: a player, the flags set between ticks, and  *)
(* updatePlayer called once per tick.  call records the last call: its     *)
(* deltaTime and the player before it.                                     *)
(***************************************************************************)
MaxTicks == 2

Tenth == FDiv(Num(1), Num(10))

\* deltaTime of a tick: 0.1, -0.1, 0, and 2^1020, finite and so large that
\* PLAYER_SPEED * deltaTime overflows
DeltaTimes == {Tenth, FNeg(Tenth), Num(0), Fin(0, <<1>>, 1020)}

StartPositions ==
    {<<Num(790), Num(300)>>, <<Num(10), Num(300)>>, <<Tenth, Tenth>>, <<Num(0), Num(0)>>}

NoMoving == [d \in Direction |-> FALSE]

NewPlayer(x, y) == [id |-> 0, x |-> x, y |-> y, moving |-> NoMoving, hue |-> 0]

NoCall == [op |-> "none", deltaTime |-> Num(0), before |-> NewPlayer(Num(0), Num(0))]

MoveIdle == player = NewPlayer(Num(0), Num(0)) /\ call = NoCall /\ ticks = 0

MoveInit ==
    /\ \E xy \in StartPositions :
          player = NewPlayer(xy[1], xy[2])
    /\ call = NoCall
    /\ ticks = 0

\* the caller sets one flag of player.moving
SetMoving(dir, start) ==
    /\ ticks < MaxTicks
    /\ player.moving[dir] # start
    /\ player' = [player EXCEPT !.moving[dir] = start]
    /\ UNCHANGED <<call, ticks>>

UpdatePlayer(deltaTime) ==
    /\ ticks < MaxTicks
    /\ player' = updatePlayer(player, deltaTime)
    /\ call' = [op |-> "updatePlayer", deltaTime |-> deltaTime, before |-> player]
    /\ ticks' = ticks + 1

(***************************************************************************)
(* The binary schema builder.  A DataView is a sequence of bytes, the byte *)
(* at offset o being element o + 1.  An access that does not lie inside    *)
(* the view raises RangeError and stores nothing.                          *)
(***************************************************************************)
MessageKind == [Hello |-> 0, PlayerJoined |-> 1]

UINT8_SIZE == 1
UINT32_SIZE == 4
FLOAT32_SIZE == 4

FLOAT32_PREC == 24
FLOAT32_EMIN == -149
FLOAT32_EMAX == 127

RangeError == [k |-> "RangeError", s |-> 0, m |-> <<>>, e |-> 0]

\* ToUint8(n), ToUint32(n): the integer part of n modulo 2^bits
ToUint(n, bits) ==
    IF ~IsFinite(n) \/ IsZero(n) THEN <<>>
    ELSE LET low == BLow(IF n.e >= 0 THEN BShl(n.m, n.e) ELSE BShr(n.m, -n.e), bits)
         IN  IF n.s = 1 /\ low # <<>> THEN BSub(BShl(<<1>>, bits), low) ELSE low

\* the size bytes of the natural number u, least significant first
UintBytes(u, size) == [i \in 1..size |-> BToNat(BLow(BShr(u, 8 * (i - 1)), 8))]

\* the natural number whose bytes are given, least significant first
RECURSIVE BytesToNat(_)
BytesToNat(bytes) ==
    IF bytes = <<>> THEN <<>>
    ELSE BAdd(BFromNat(bytes[1]), BShl(BytesToNat(Tail(bytes)), 8))

\* the binary32 fields of the binary32 value f, whose magnitude has L bits
Float32Exponent(f, L) ==
    CASE f.k \in {"nan", "inf"} -> 255
      [] IsZero(f) -> 0
      [] IsFinite(f) /\ ~IsZero(f) /\ f.e + L - 1 >= -126 -> f.e + L - 1 + 127
      [] OTHER -> 0

Float32Fraction(f, L) ==
    CASE f.k = "nan" -> 2^22
      [] f.k = "inf" -> 0
      [] IsZero(f) -> 0
      [] IsFinite(f) /\ ~IsZero(f) /\ f.e + L - 1 >= -126 ->
            BToNat(f.m) * (2^(FLOAT32_PREC - L)) - 2^23
      [] OTHER -> BToNat(f.m) * (2^(f.e - FLOAT32_EMIN))

Float32Fields(sign, exponent, fraction) ==
    << fraction % 256,
       (fraction \div 256) % 256,
       (fraction \div 65536) + 128 * (exponent % 2),
       (exponent \div 2) + 128 * sign >>

Float32Encode(f) ==
    Float32Fields(f.s, Float32Exponent(f, BLen(f.m)), Float32Fraction(f, BLen(f.m)))

\* n rounded to binary32
Fround(n) ==
    IF IsFinite(n) THEN RoundTo(FLOAT32_PREC, FLOAT32_EMIN, FLOAT32_EMAX, n.s, n.m, n.e)
    ELSE n

\* the four bytes of the binary32 value nearest to n, least significant first
Float32Bytes(n) == Float32Encode(Fround(n))

\* the number that four bytes, least significant first, hold as a binary32
Float32Decode(sign, exponent, fraction) ==
    CASE exponent = 255 /\ fraction # 0 -> NaN
      [] exponent = 255 /\ fraction = 0 -> Inf(sign)
      [] exponent = 0 -> Fin(sign, BFromNat(fraction), FLOAT32_EMIN)
      [] OTHER -> Fin(sign, BFromNat(fraction + 2^23), exponent - 127 - 23)

Float32Value(b) ==
    Float32Decode(b[4] \div 128,
                  (b[4] % 128) * 2 + (b[3] \div 128),
                  (b[3] % 128) * 65536 + b[2] * 256 + b[1])

Reverse(bytes) == [i \in 1..Len(bytes) |-> bytes[Len(bytes) + 1 - i]]

InOrder(bytes, littleEndian) == IF littleEndian THEN bytes ELSE Reverse(bytes)

InView(view, byteOffset, size) == byteOffset >= 0 /\ byteOffset + size <= Len(view)

Store(view, byteOffset, bytes) ==
    IF InView(view, byteOffset, Len(bytes))
    THEN [view |-> [i \in 1..Len(view) |->
                       IF i > byteOffset /\ i <= byteOffset + Len(bytes)
                       THEN bytes[i - byteOffset] ELSE view[i]],
          raised |-> FALSE]
    ELSE [view |-> view, raised |-> TRUE]

Load(view, byteOffset, size) == SubSeq(view, byteOffset + 1, byteOffset + size)

\* the accessors of DataView
setUint8(view, byteOffset, value) ==
    Store(view, byteOffset, UintBytes(ToUint(value, 8), UINT8_SIZE))

getUint8(view, byteOffset) ==
    IF InView(view, byteOffset, UINT8_SIZE)
    THEN Round(0, BytesToNat(Load(view, byteOffset, UINT8_SIZE)), 0)
    ELSE RangeError

setUint32_BigEndian(view, byteOffset, value, littleEndian) ==
    Store(view, byteOffset, Reverse(UintBytes(ToUint(value, 32), UINT32_SIZE)))

setUint32(view, byteOffset, value, littleEndian) ==
    Store(view, byteOffset, InOrder(UintBytes(ToUint(value, 32), UINT32_SIZE), littleEndian))

getUint32(view, byteOffset, littleEndian) ==
    IF InView(view, byteOffset, UINT32_SIZE)
    THEN Round(0, BytesToNat(InOrder(Load(view, byteOffset, UINT32_SIZE), littleEndian)), 0)
    ELSE RangeError

setFloat32(view, byteOffset, value, littleEndian) ==
    Store(view, byteOffset, InOrder(Float32Bytes(value), littleEndian))

getFloat32(view, byteOffset, littleEndian) ==
    IF InView(view, byteOffset, FLOAT32_SIZE)
    THEN Float32Value(InOrder(Load(view, byteOffset, FLOAT32_SIZE), littleEndian))
    ELSE RangeError

\* the allocators: the field they return and the allocator they leave
allocUint8Field(allocator) ==
    [field |-> [offset |-> allocator.iota, size |-> UINT8_SIZE, type |-> "Uint8"],
     allocator |-> [iota |-> allocator.iota + UINT8_SIZE]]

allocUint32Field_OneByte(allocator) ==
    [field |-> [offset |-> allocator.iota, size |-> UINT32_SIZE, type |-> "Uint32"],
     allocator |-> [iota |-> allocator.iota + UINT8_SIZE]]

allocUint32Field(allocator) ==
    [field |-> [offset |-> allocator.iota, size |-> UINT32_SIZE, type |-> "Uint32"],
     allocator |-> [iota |-> allocator.iota + UINT32_SIZE]]

allocFloat32Field(allocator) ==
    [field |-> [offset |-> allocator.iota, size |-> FLOAT32_SIZE, type |-> "Float32"],
     allocator |-> [iota |-> allocator.iota + FLOAT32_SIZE]]

\* field.read(view, baseOffset)
read(field, view, baseOffset) ==
    CASE field.type = "Uint8" -> getUint8(view, baseOffset + field.offset)
      [] field.type = "Uint32" -> getUint32(view, baseOffset + field.offset, TRUE)
      [] field.type = "Float32" -> getFloat32(view, baseOffset + field.offset, TRUE)

\* field.write(view, baseOffset, value)
write(field, view, baseOffset, value) ==
    CASE field.type = "Uint8" -> setUint8(view, baseOffset + field.offset, value)
      [] field.type = "Uint32" -> setUint32(view, baseOffset + field.offset, value, TRUE)
      [] field.type = "Float32" -> setFloat32(view, baseOffset + field.offset, value, TRUE)

HelloStruct ==
    LET kind == allocUint8Field([iota |-> 0])
        id   == allocUint32Field(kind.allocator)
        x    == allocFloat32Field(id.allocator)
        y    == allocFloat32Field(x.allocator)
        hue  == allocUint8Field(y.allocator)
    IN  [kind |-> kind.field,
         id   |-> id.field,
         x    |-> x.field,
         y    |-> y.field,
         hue  |-> hue.field,
         size |-> hue.allocator.iota]

\* the fields of HelloStruct in declaration order
HelloFields == <<"kind", "id", "x", "y", "hue">>

(***************************************************************************)
(* The handshake machine: a view created with every byte equal (zero for a *)
(* new buffer, another value for a reused one), one base offset, and the   *)
(* fields of HelloStruct written and read in any order.  written records   *)
(* the value last stored through each field, last the last access.         *)
(***************************************************************************)
ViewLength == 15
MaxBase == 2

FillBytes == {0, 255}

Uint32Max == Fin(0, <<4095, 4095, 255>>, 0)

\* the largest number below WORLD_WIDTH
BelowWidth == FAdd(Num(WORLD_WIDTH), Fin(1, <<1>>, -43))

FieldValues ==
    [kind |-> {Num(MessageKind.Hello)},
     id   |-> {Num(0), Num(16909060), Uint32Max},
     x    |-> {Tenth, Num(790), BelowWidth},
     y    |-> {Tenth, Num(300)},
     hue  |-> {Num(7), Num(255)}]

Unwritten == [k |-> "none", s |-> 0, m |-> <<>>, e |-> 0]

NoAccess == [op |-> "none", field |-> "none", value |-> Unwritten]

NothingWritten == [name \in {"kind", "id", "x", "y", "hue"} |-> Unwritten]

HelloIdle ==
    /\ dataView = <<>> /\ fresh = <<>> /\ base = 0
    /\ written = NothingWritten /\ last = NoAccess

HelloInit ==
    /\ \E b \in FillBytes : fresh = [i \in 1..ViewLength |-> b]
    /\ dataView = fresh
    /\ base \in 0..MaxBase
    /\ written = NothingWritten
    /\ last = NoAccess

Stored(res, name, value) ==
    /\ dataView' = res.view
    /\ written' = IF res.raised THEN written ELSE [written EXCEPT ![name] = value]
    /\ last' = [op |-> "write", field |-> name,
                value |-> IF res.raised THEN RangeError ELSE value]

WriteField(name, value) ==
    /\ Stored(write(HelloStruct[name], dataView, base, value), name, value)
    /\ UNCHANGED <<fresh, base>>

ReadField(name) ==
    /\ last' = [op |-> "read", field |-> name,
                value |-> read(HelloStruct[name], dataView, base)]
    /\ UNCHANGED <<dataView, fresh, base, written>>

(***************************************************************************)
(* sendMessage.  A socket is the sequence of payloads handed to its send;  *)
(* a text payload is a string value, "bytes" would be a binary one.        *)
(***************************************************************************)
\* QuoteJSONString(s) for a string with no character that needs an escape,
\* as are the kinds, the field names and the directions
QuoteJSONString(s) == "\"" \o s \o "\""

\* JSON.stringify of a value that holds no array: a property whose value is
\* undefined is left out, a number that is not finite becomes null
RECURSIVE SerializeJSONProperty(_), SerializeJSONObject(_, _, _)
SerializeJSONProperty(a) ==
    CASE a.t = "null" -> "null"
      [] a.t = "boolean" -> (IF a.v THEN "true" ELSE "false")
      [] a.t = "string" -> QuoteJSONString(a.v)
      [] a.t = "number" -> (IF IsFinite(a.v) THEN NumberToString(a.v) ELSE "null")
      [] a.t = "object" -> "{" \o SerializeJSONObject(a.v, 1, TRUE) \o "}"

\* the members of an object from property i on, in insertion order
SerializeJSONObject(props, i, first) ==
    IF i > Len(props) THEN ""
    ELSE IF props[i][2].t = "undefined" THEN SerializeJSONObject(props, i + 1, first)
    ELSE (IF first THEN "" ELSE ",")
         \o QuoteJSONString(props[i][1]) \o ":" \o SerializeJSONProperty(props[i][2])
         \o SerializeJSONObject(props, i + 1, FALSE)

JSONStringify(message) == SerializeJSONProperty(message)

\* socket.send(data)
send_Twice(sock, data) == sock \o <<data, data>>

send(sock, data) == Append(sock, data)

\* the socket after the call and the value returned
Sent(sock, text) == [socket |-> send(sock, Str(text)), returned |-> Len(text)]

sendMessage(sock, message) == Sent(sock, JSONStringify(message))

(***************************************************************************)
(* The sending machine: messages are sent one after another on one socket. *)
(* messages records the arguments of the calls, returned their results.    *)
(***************************************************************************)
MaxSends == 3

HelloMessage ==
    Obj(<< <<"kind", Str("Hello")>>, <<"id", Number(Num(1))>>, <<"x", Number(Num(10))>>,
           <<"y", Number(Num(300))>>, <<"hue", Number(Num(7))>> >>)

PlayerJoinedMessage ==
    Obj(<< <<"kind", Str("PlayerJoined")>>, <<"id", Number(Num(1))>>,
           <<"x", Number(Num(10))>>, <<"y", Number(Num(300))>>, <<"hue", Number(Num(7))>> >>)

\* a position that is not a number and no hue
PlayerJoinedNaNMessage ==
    Obj(<< <<"kind", Str("PlayerJoined")>>, <<"id", Number(Num(1))>>,
           <<"x", Number(NaN)>>, <<"y", Number(Num(300))>>, <<"hue", Undefined>> >>)

PlayerLeftMessage == Obj(<< <<"kind", Str("PlayerLeft")>>, <<"id", Number(Num(1))>> >>)

AmmaMovingMessage ==
    Obj(<< <<"kind", Str("AmmaMoving")>>, <<"start", Bool(TRUE)>>,
           <<"direction", Str("left")>> >>)

PlayerMovingMessage ==
    Obj(<< <<"kind", Str("PlayerMoving")>>, <<"id", Number(Num(1))>>,
           <<"x", Number(Num(10))>>, <<"y", Number(Num(300))>>,
           <<"start", Bool(FALSE)>>, <<"direction", Str("up")>> >>)

Messages ==
    {HelloMessage, PlayerJoinedMessage, PlayerJoinedNaNMessage, PlayerLeftMessage,
     AmmaMovingMessage, PlayerMovingMessage}

SendIdle == socket = <<>> /\ returned = <<>> /\ messages = <<>>

SendInit == SendIdle

Returned(res, message) ==
    /\ socket' = res.socket
    /\ returned' = Append(returned, res.returned)
    /\ messages' = Append(messages, message)

SendMessage(message) ==
    /\ Len(messages) < MaxSends
    /\ Returned(sendMessage(socket, message), message)

(***************************************************************************)
(* The specifications: each machine runs with the others idle.             *)
(***************************************************************************)
InitMove == MoveInit /\ ValidateIdle /\ HelloIdle /\ SendIdle

NextMove ==
    /\ \/ \E dir \in Direction, start \in BOOLEAN : SetMoving(dir, start)
       \/ \E deltaTime \in DeltaTimes : UpdatePlayer(deltaTime)
    /\ UNCHANGED <<validateVars, helloVars, sendVars>>

SpecMove == InitMove /\ [][NextMove]_vars

InitValidate == ValidateInit /\ MoveIdle /\ HelloIdle /\ SendIdle

NextValidate ==
    /\ \E name \in Validators : Validate(name)
    /\ UNCHANGED <<moveVars, helloVars, sendVars>>

SpecValidate == InitValidate /\ [][NextValidate]_vars

InitHello == HelloInit /\ MoveIdle /\ ValidateIdle /\ SendIdle

NextHello ==
    /\ \/ \E i \in 1..Len(HelloFields) :
             \E value \in FieldValues[HelloFields[i]] : WriteField(HelloFields[i], value)
       \/ \E i \in 1..Len(HelloFields) : ReadField(HelloFields[i])
    /\ UNCHANGED <<moveVars, validateVars, sendVars>>

SpecHello == InitHello /\ [][NextHello]_vars

InitSend == SendInit /\ MoveIdle /\ ValidateIdle /\ HelloIdle

NextSend ==
    /\ \E message \in Messages : SendMessage(message)
    /\ UNCHANGED <<moveVars, validateVars, helloVars>>

SpecSend == InitSend /\ [][NextSend]_vars

(***************************************************************************)
(* Properties of updatePlayer                                              *)
(***************************************************************************)
InRange(v, bound) == FLe(Num(0), v) /\ FLt(v, Num(bound))

InWorld(p) == InRange(p.x, WORLD_WIDTH) /\ InRange(p.y, WORLD_HEIGHT)

Called == call.op = "updatePlayer"

\* the flags the last call ran with
Flags == {dir \in Direction : call.before.moving[dir]}

\* a - b exactly, without rounding, for finite a and b
ExactSub(a, b) ==
    LET e0 == Min(a.e, b.e)
        A  == BShl(a.m, a.e - e0)
        B  == BShl(b.m, b.e - e0)
    IN  IF a.s # b.s THEN Fin(a.s, BAdd(A, B), e0)
        ELSE IF BCmp(A, B) >= 0 THEN Fin(a.s, BSub(A, B), e0)
        ELSE Fin(1 - a.s, BSub(B, A), e0)

\* the finite number v is an integer multiple of the integer n > 0, exactly
MultipleOf(v, n) ==
    IsZero(v) \/ (v.e >= 0 /\ BDivMod(BShl(v.m, v.e), BFromNat(n))[2] = <<>>)

\* w is v wrapped into [0, bound): in range, and v - w a multiple of bound
WrappedFrom(w, v, bound) ==
    /\ IsFinite(w) /\ IsFinite(v)
    /\ InRange(w, bound)
    /\ MultipleOf(ExactSub(v, w), bound)

C7_IdleUnchanged ==
    (Called /\ InWorld(call.before) /\ Flags = {})
    => (FEq(player.x, call.before.x) /\ FEq(player.y, call.before.y))

\* C8: with exactly one flag true, the coordinate of the other axis is
\* unchanged and the coordinate of the flag's axis is the old value plus
\* (right, down) or minus (left, up) PLAYER_SPEED * deltaTime, wrapped into
\* [0, bound).
C8_SingleDirection ==
    (Called /\ InWorld(call.before) /\ Cardinality(Flags) = 1)
    => LET dir  == CHOOSE d \in Direction : d \in Flags
           step == FMul(Num(PLAYER_SPEED), call.deltaTime)
           sgn  == IF dir \in {"right", "down"} THEN step ELSE FNeg(step)
       IN  IF dir \in {"left", "right"}
           THEN /\ FEq(player.y, call.before.y)
                /\ WrappedFrom(player.x, FAdd(call.before.x, sgn), WORLD_WIDTH)
           ELSE /\ FEq(player.x, call.before.x)
                /\ WrappedFrom(player.y, FAdd(call.before.y, sgn), WORLD_HEIGHT)

\* the sum of the unit vectors of the flags, in integers
FlagSum(flags) ==
    [x |-> (IF "right" \in flags THEN 1 ELSE 0) - (IF "left" \in flags THEN 1 ELSE 0),
     y |-> (IF "down" \in flags THEN 1 ELSE 0) - (IF "up" \in flags THEN 1 ELSE 0)]

MovingOf(flags) == [dir \in Direction |-> dir \in flags]

\* C10: for each combination of the flags, the direction updatePlayer uses
\* is the sum of the unit vectors of the true flags divided component-wise
\* by its squared length when that is not zero; opposing flags give a zero
\* displacement on their axis, left+right+up moves as up alone does, and up
\* and right with deltaTime = 0.1 displace by (+25, -25) before wrapping.
C10_Direction ==
    Called =>
        LET sum  == FlagSum(Flags)
            len2 == sum.x * sum.x + sum.y * sum.y
            d    == MoveDirection(call.before.moving)
            disp == Displacement(call.before.moving, call.deltaTime)
        IN  /\ IF len2 = 0 THEN FEq(d.x, Num(0)) /\ FEq(d.y, Num(0))
               ELSE /\ FMul(d.x, Num(len2)) = Num(sum.x)
                    /\ FMul(d.y, Num(len2)) = Num(sum.y)
            /\ {"left", "right"} \subseteq Flags => FEq(disp.x, Num(0))
            /\ {"up", "down"} \subseteq Flags => FEq(disp.y, Num(0))
            /\ Flags = {"left", "right", "up"} =>
                   /\ player.x = updatePlayer([call.before EXCEPT !.moving = MovingOf({"up"})],
                                              call.deltaTime).x
                   /\ player.y = updatePlayer([call.before EXCEPT !.moving = MovingOf({"up"})],
                                              call.deltaTime).y
            /\ Cardinality(Flags) = 2 /\ len2 = 2 =>
                   /\ FMul(d.x, Num(2)) \in {Num(1), Num(-1)}
                   /\ FMul(d.y, Num(2)) \in {Num(1), Num(-1)}
            /\ (Flags = {"up", "right"} /\ call.deltaTime = Tenth) =>
                   /\ disp = [x |-> Num(25), y |-> Num(-25)]
                   /\ player.x = properMod(FAdd(call.before.x, Num(25)), Num(WORLD_WIDTH))
                   /\ player.y = properMod(FAdd(call.before.y, Num(-25)), Num(WORLD_HEIGHT))

\* up and right from (790, 300) with deltaTime = 0.1: the player is at (15, 275)
C10_Witness ==
    /\ Called /\ Flags = {"up", "right"} /\ call.deltaTime = Tenth
    /\ call.before.x = Num(790) /\ call.before.y = Num(300)
    /\ player.x = Num(15) /\ player.y = Num(275)
(***************************************************************************)
(* Properties of the validators                                            *)
(***************************************************************************)
Validated == validator # "none"

Has(a, key) == a.t = "object" /\ \E i \in 1..Len(a.v) : a.v[i][1] = key

HasTyped(a, key, type) == Has(a, key) /\ Get(a, key).t = type

HasDirection(a) == HasTyped(a, "direction", "string") /\ Get(a, "direction").v \in Direction

HasKind(a, kind) == HasTyped(a, "kind", "string") /\ Get(a, "kind").v = kind

\* a is a well-formed event of the kind the validator name stands for
WellFormed(name, a) ==
    CASE name = "isPlayerJoined" ->
            /\ HasKind(a, "PlayerJoined")
            /\ \A key \in {"id", "x", "y", "hue"} : HasTyped(a, key, "number")
      [] name = "isPlayerLeft" ->
            HasKind(a, "PlayerLeft") /\ HasTyped(a, "id", "number")
      [] name = "isAmmaMoving" ->
            /\ HasKind(a, "AmmaMoving")
            /\ HasTyped(a, "start", "boolean")
            /\ HasDirection(a)
      [] name = "isPlayerMoving" ->
            /\ HasKind(a, "PlayerMoving")
            /\ \A key \in {"id", "x", "y"} : HasTyped(a, key, "number")
            /\ HasTyped(a, "start", "boolean")
            /\ HasDirection(a)

\* C2: isAmmaMoving and isPlayerMoving accept a payload only if its
\* direction is one of the strings 'left', 'right', 'up', 'down'; any other
\* string, a name every object inherits included, and any value that is not
\* a string is rejected.
C2_DirectionInKeySet ==
    (Validated /\ validator \in {"isAmmaMoving", "isPlayerMoving"} /\ Truthy(result))
    => HasDirection(payload)

\* C3: a validator returns true only if kind is its own literal and every
\* required field is present with its exact type; every other payload is
\* rejected.
C3_AllOrNothing ==
    (Validated /\ result.t # "throw" /\ Truthy(result)) => WellFormed(validator, payload)

\* C4: on every input a validator does not raise and returns a boolean,
\* which is false whenever the input is not a well-formed event of its kind.
C4_ReturnsFalse ==
    Validated =>
        /\ result.t # "throw"
        /\ result.t = "boolean"
        /\ ~WellFormed(validator, payload) => result = Bool(FALSE)

(***************************************************************************)
(* Properties of the schema builder and of the handshake record            *)
(***************************************************************************)
FieldAt(i) == HelloStruct[HelloFields[i]]

\* the bytes of the record that field i occupies
ByteRange(i) == FieldAt(i).offset .. FieldAt(i).offset + FieldAt(i).size - 1

RECURSIVE SizesBefore(_)
SizesBefore(i) == IF i <= 1 THEN 0 ELSE SizesBefore(i - 1) + FieldAt(i - 1).size

AllWritten == \A i \in 1..Len(HelloFields) : written[HelloFields[i]] # Unwritten

\* byte offset o of the view lies in a field that has been written
InWrittenField(o) ==
    \E i \in 1..Len(HelloFields) :
        written[HelloFields[i]] # Unwritten /\ (o - base) \in ByteRange(i)

\* C5: kind, id, x, y, hue have offsets 0, 1, 5, 9, 13 and sizes 1, 4, 4, 4,
\* 1; every offset is the sum of the sizes declared before it; the five byte
\* ranges are pairwise disjoint and cover bytes 0..13; the size is 14; and
\* the writers store nothing outside the ranges of the fields written.
C5_HelloLayout ==
    /\ <<HelloStruct.kind.offset, HelloStruct.kind.size>> = <<0, 1>>
    /\ <<HelloStruct.id.offset, HelloStruct.id.size>> = <<1, 4>>
    /\ <<HelloStruct.x.offset, HelloStruct.x.size>> = <<5, 4>>
    /\ <<HelloStruct.y.offset, HelloStruct.y.size>> = <<9, 4>>
    /\ <<HelloStruct.hue.offset, HelloStruct.hue.size>> = <<13, 1>>
    /\ HelloStruct.size = 14
    /\ \A i \in 1..Len(HelloFields) : FieldAt(i).offset = SizesBefore(i)
    /\ \A i, j \in 1..Len(HelloFields) : i # j => ByteRange(i) \cap ByteRange(j) = {}
    /\ UNION {ByteRange(i) : i \in 1..Len(HelloFields)} = 0..13
    /\ \A o \in 0..Len(dataView) - 1 : ~InWrittenField(o) => dataView[o + 1] = fresh[o + 1]

\* the whole record written at base 0 into a view of bytes 255: bytes 0..13
\* all hold something else, the byte after the record is untouched
C5_Witness ==
    /\ AllWritten /\ base = 0 /\ fresh[1] = 255
    /\ written.id = Num(16909060) /\ written.hue = Num(7)
    /\ \A o \in 0..13 : dataView[o + 1] # 255
    /\ dataView[15] = 255

\* r is a binary32 value
IsFloat32(r) ==
    \/ ~IsFinite(r)
    \/ IsZero(r)
    \/ /\ BLen(r.m) <= 24
       /\ r.e >= -149
       /\ r.e + BLen(r.m) - 1 <= 127

\* |a| <= |b| for finite a and b
MagLe(a, b) == MagCmp(a, b) <= 0

\* r is v to single precision: a binary32 value, at most half a unit in the
\* last of 24 places from v: |r - v| * 2^24 <= |v|
WithinFloat32Rounding(r, v) ==
    /\ IsFinite(r) /\ IsFloat32(r)
    /\ MagLe(FMul(ExactSub(r, v), Fin(0, <<1>>, 24)), v)

ReadBack(name) == read(HelloStruct[name], dataView, base)

\* C9: whatever was written in whatever order, every field written reads
\* back: kind, id and hue exactly, x and y to single precision; and a field
\* never written still reads what the view held when it was created.
C9_RoundTrip ==
    \A i \in 1..Len(HelloFields) :
        IF written[HelloFields[i]] = Unwritten
        THEN ReadBack(HelloFields[i]) = read(FieldAt(i), fresh, base)
        ELSE IF FieldAt(i).type = "Float32"
        THEN WithinFloat32Rounding(ReadBack(HelloFields[i]), written[HelloFields[i]])
        ELSE ReadBack(HelloFields[i]) = written[HelloFields[i]]

\* the whole record written at base 1, id 2^32 - 1 and x 0.1, and id the
\* field read last: 4294967295 comes back, and x comes back as 13421773 *
\* 2^-27, which is not 0.1
C9_Witness ==
    /\ AllWritten /\ base = 1
    /\ written.id = Uint32Max /\ written.x = Tenth /\ written.kind = Num(0)
    /\ last = [op |-> "read", field |-> "id", value |-> Uint32Max]
    /\ ReadBack("x") = Fin(0, BFromNat(13421773), -27)
    /\ ReadBack("x") # Tenth

(***************************************************************************)
(* Properties of sendMessage                                               *)
(***************************************************************************)
IsHandshake(message) == Get(message, "kind") = Str("Hello")

\* the binary record of a handshake: HelloStruct.size bytes, every field
\* written through HelloStruct at base 0
RECURSIVE HelloRecordFrom(_, _, _)
HelloRecordFrom(bytes, message, i) ==
    IF i > Len(HelloFields) THEN bytes
    ELSE HelloRecordFrom(
             write(FieldAt(i), bytes, 0,
                   IF HelloFields[i] = "kind" THEN Num(MessageKind.Hello)
                   ELSE Get(message, HelloFields[i]).v).view,
             message, i + 1)

HelloRecord(message) ==
    [t |-> "bytes", v |-> HelloRecordFrom([i \in 1..HelloStruct.size |-> 0], message, 1)]

\* the text of each message, written out
TextOf(message) ==
    CASE message = HelloMessage ->
            "{\"kind\":\"Hello\",\"id\":1,\"x\":10,\"y\":300,\"hue\":7}"
      [] message = PlayerJoinedMessage ->
            "{\"kind\":\"PlayerJoined\",\"id\":1,\"x\":10,\"y\":300,\"hue\":7}"
      [] message = PlayerJoinedNaNMessage ->
            "{\"kind\":\"PlayerJoined\",\"id\":1,\"x\":null,\"y\":300}"
      [] message = PlayerLeftMessage ->
            "{\"kind\":\"PlayerLeft\",\"id\":1}"
      [] message = AmmaMovingMessage ->
            "{\"kind\":\"AmmaMoving\",\"start\":true,\"direction\":\"left\"}"
      [] message = PlayerMovingMessage ->
            "{\"kind\":\"PlayerMoving\",\"id\":1,\"x\":10,\"y\":300,\"start\":false,\"direction\":\"up\"}"

OnePayloadPerCall == Len(socket) = Len(messages) /\ Len(returned) = Len(messages)

\* C6 as stated: one payload per call, in call order; the payload of a
\* handshake is its binary record, that of any other event its text; the
\* call returns the length of the payload.
C6_EncodesPerProtocol ==
    /\ OnePayloadPerCall
    /\ \A i \in 1..Len(messages) :
        /\ socket[i] = (IF IsHandshake(messages[i]) THEN HelloRecord(messages[i])
                        ELSE Str(TextOf(messages[i])))
        /\ returned[i] = Len(socket[i].v)

\* C6: one payload per call, in call order; the payload of every message,
\* the handshake included, is its JSON text; the call returns the length of
\* that text.
C6_SendsTextOnce ==
    /\ OnePayloadPerCall
    /\ \A i \in 1..Len(messages) :
        /\ socket[i] = Str(TextOf(messages[i]))
        /\ returned[i] = Len(socket[i].v)

\* three calls, a handshake first: its payload is a text of 46 characters
\* and not the record of 14 bytes
C6_Witness ==
    /\ Len(messages) = 3
    /\ messages[1] = HelloMessage /\ messages[2] = PlayerLeftMessage
    /\ socket[1].t = "string" /\ returned[1] = 46 /\ returned[2] = 28
    /\ Len(HelloRecord(messages[1]).v) = 14
====
